---- MODULE Spec2Model ----
(***************************************************************************)
(* Model of the room booker of src/src/index.ts (lines 1-414, the current  *)
(* version of the program): RoomSchedule.isFree, the schedule builder      *)
(* findRoomsWithSchedules and the day-fill scheduler bookRoomsForDay.      *)
(*                                                                         *)
(* Units.  The program's hours are multiples of 0.5, which IEEE doubles    *)
(* represent exactly, so every clock time is modelled as an integer count  *)
(* of half-hours since midnight: 9 is 18, 9.5 is 19, 22 is 44.  Calendar   *)
(* dates are day numbers, Today being the day a call is made.              *)
(***************************************************************************)
EXTENDS Integers, Sequences, FiniteSets, TLC

(***************************************************************************)
(* Program constants (fields of UofGRoomBooker).                           *)
(***************************************************************************)
MAX_BOOKING_DURATION_HOURS == 3
MAX_BOOKING_ADVANCE_DAYS == 7
MIN_BOOKING_HOUR == 9
MAX_BOOKING_HOUR == 22
\* 0.5 hours: one half-hour unit
BOOKING_TIME_INTERVAL == 1
MIN_ATTENDEES == 1
MAX_ATTENDEES == 7

\* hours -> half-hour units
HalfHours(h) == 2 * h
MinSlot == HalfHours(MIN_BOOKING_HOUR)
MaxSlot == HalfHours(MAX_BOOKING_HOUR)
MaxDur == HalfHours(MAX_BOOKING_DURATION_HOURS)

(***************************************************************************)
(* Bounds of the model.                                                    *)
(***************************************************************************)
\* rooms handed to bookRoomsForDay
NumRooms == 5
\* rooms of that list that differ from a plain full-day room
MaxVaried == 2
\* findRoomsWithSchedules: the slots at the start of the day at which the
\* availability service may report a room or fail
HeadSlots == 3
\* queries of one run that may fail
MaxFail == 1
\* how far the answers may overtake one another: a query settles only while
\* every query still pending is of a slot less than MaxRace slots earlier
MaxRace == 2
\* isFree: stored intervals of the schedule queried, and the span of the times
MaxIntervals == 2
QuerySpan == 4

Today == 0
Tomorrow == Today + 1

Min(a, b) == IF a <= b THEN a ELSE b

(***************************************************************************)
(* Data model.                                                             *)
(***************************************************************************)
\* a free-time interval as stored in RoomSchedule.freeTimes
Interval(from, to) == [from |-> from, to |-> to]

\* Room.schedule when it was never set
NoSchedule == [undefined |-> TRUE]

RoomSchedule(date, freeTimes) == [date |-> date, freeTimes |-> freeTimes]

Room(id, capacity, schedule) == [id |-> id, capacity |-> capacity, schedule |-> schedule]

\* the value Array.prototype.find returns when nothing matches
NotFound == [undefined |-> TRUE]

(***************************************************************************)
(* RoomSchedule.isFree                                                     *)
(***************************************************************************)
\* freeTimes.find((t) => from >= t.from && from <= t.to && to >= t.from && to <= t.to),
\* scanning from index i
RECURSIVE findInterval(_, _, _, _)
findInterval(freeTimes, i, from, to) ==
  IF i > Len(freeTimes) THEN NotFound
  ELSE IF /\ from >= freeTimes[i].from
          /\ from <= freeTimes[i].to
          /\ to >= freeTimes[i].from
          /\ to <= freeTimes[i].to
       THEN freeTimes[i]
       ELSE findInterval(freeTimes, i + 1, from, to)

\* a plausible slip: from and to are each looked up on their own, so a block
\* may straddle two stored intervals
isFreeIntervalMerged(freeTimes, from, to) ==
  /\ findInterval(freeTimes, 1, from, from) # NotFound
  /\ findInterval(freeTimes, 1, to, to) # NotFound

isFreeInterval(freeTimes, from, to) == findInterval(freeTimes, 1, from, to) # NotFound

\* isFree(time): freeTimes.find((t) => time >= t.from && time <= t.to)
RECURSIVE findPoint(_, _, _)
findPoint(freeTimes, i, time) ==
  IF i > Len(freeTimes) THEN NotFound
  ELSE IF time >= freeTimes[i].from /\ time <= freeTimes[i].to
       THEN freeTimes[i]
       ELSE findPoint(freeTimes, i + 1, time)

\* a plausible slip: the second argument is ignored and only the start of the
\* block is looked up
isFreeStartOnly(schedule, time, to) == findPoint(schedule.freeTimes, 1, time) # NotFound

\* the overloaded isFree(time, to?): `to` is a sequence, <<>> when the
\* argument is omitted
isFree(schedule, time, to) ==
  IF to # <<>> THEN isFreeInterval(schedule.freeTimes, time, to[1])
  ELSE findPoint(schedule.freeTimes, 1, time) # NotFound

\* Room.isFree(from, to); the callers below reach it only for rooms that
\* carry a schedule (bookRoomsForDay rejects the others beforehand)
RoomIsFree(room, from, to) == isFree(room.schedule, from, <<to>>)

(***************************************************************************)
(* State.                                                                  *)
(***************************************************************************)
VARIABLES
  op,              \* the operation called
  pc,              \* position of the running call
  attendees,       \* the attendees argument
  posts,           \* bodies handed to post(), in issue order
  err,             \* the error the call throws, "" if none
  \* bookRoomsForDay
  rooms,           \* the caller's rooms list
  validRooms,      \* the run's pool
  currentHour,
  currentDuration,
  bookedTo,
  roomsToBook,     \* the recorded assignments
  subStatus,       \* state of each assignment's bookRoom promise
  bookedRooms,     \* the list the call returns
  run,             \* 1 for the call, 2 for a repeat of it on the same arguments
  firstRun,        \* the assignments the first call recorded, <<>> before a repeat
  \* findRoomsWithSchedules
  date,            \* the date argument
  avail,           \* what the availability service answers, per slot
  slotPromises,    \* `schedule`: the state of each slot's findRooms promise
  foundRooms,      \* the list the call returns
  \* isFree
  query,           \* the schedule queried and the arguments
  answer           \* what isFree returned

commonVars == <<op, attendees, run, firstRun>>

fillVars == <<rooms, validRooms, currentHour, currentDuration, bookedTo,
              roomsToBook, subStatus, bookedRooms>>

buildVars == <<date, avail, slotPromises, foundRooms>>

freeVars == <<query, answer>>

vars == <<op, pc, attendees, posts, err, rooms, validRooms, currentHour, currentDuration,
          bookedTo, roomsToBook, subStatus, bookedRooms, date, avail, slotPromises,
          foundRooms, query, answer, run, firstRun>>

(***************************************************************************)
(* Inputs of bookRoomsForDay.                                              *)
(***************************************************************************)
FullDay == <<Interval(MinSlot, MaxSlot)>>

\* the attendee count of the program's own run (const attendees = 4)
MainAttendees == 4

\* capacities on both sides of that count
LowCapacity == MainAttendees - 1
HighCapacity == MainAttendees

\* the attendee counts tried: the bounds of the range, one below, one above,
\* and one inside
AttendeeChoices == {MIN_ATTENDEES - 1, MIN_ATTENDEES, MainAttendees, MAX_ATTENDEES, MAX_ATTENDEES + 1}

RoomKind(capacity, schedule) == [capacity |-> capacity, schedule |-> schedule]

\* a room with nothing special: big enough, free the whole day, tomorrow
PlainKind == RoomKind(HighCapacity, RoomSchedule(Tomorrow, FullDay))

\* the ways one room of the list may differ from a plain room
VariedKinds ==
  { RoomKind(LowCapacity, RoomSchedule(Tomorrow, FullDay)),
    RoomKind(HighCapacity, NoSchedule),
    RoomKind(HighCapacity, RoomSchedule(Today, FullDay)),
    \* free 9 to 11.5 only
    RoomKind(HighCapacity, RoomSchedule(Tomorrow, <<Interval(MinSlot, MinSlot + 5)>>)),
    \* two stored intervals that touch at 10.5
    RoomKind(HighCapacity,
             RoomSchedule(Tomorrow, <<Interval(MinSlot, MinSlot + 3), Interval(MinSlot + 3, MaxSlot)>>)),
    \* busy from 9 to 10, then free until 23: a schedule handed in by a caller
    \* that runs past the end of the operating day
    RoomKind(HighCapacity, RoomSchedule(Tomorrow, <<Interval(MinSlot + 2, MaxSlot + 2)>>)),
    \* free 9 to 9.5 and 13 to 22, stored out of order
    RoomKind(HighCapacity,
             RoomSchedule(Tomorrow, <<Interval(MinSlot + 8, MaxSlot), Interval(MinSlot, MinSlot + 1)>>)) }

\* the rooms lists tried: at most NumRooms rooms, the id of a room being its
\* place in the list, at most MaxVaried of them not plain
RoomLists ==
  UNION { UNION { { [i \in 1..n |-> LET k == IF i \in P THEN f[i] ELSE PlainKind
                                    IN  Room(i, k.capacity, k.schedule)] :
                    f \in [P -> VariedKinds] } :
                  P \in { Q \in SUBSET (1..n) : Cardinality(Q) <= MaxVaried } } :
          n \in 0..NumRooms }

\* the readings of the wall clock (hour of day) a call may see: before the
\* operating day starts, and in the middle of it
NowHours == {MIN_BOOKING_HOUR - 1, MIN_BOOKING_HOUR + 4}

(***************************************************************************)
(* Validation.                                                             *)
(***************************************************************************)
\* validateAttendees throws
validateAttendeesThrows(n) == n < MIN_ATTENDEES \/ n > MAX_ATTENDEES

ErrAttendees == "Capacity must be between ${this.MIN_ATTENDEES} and ${this.MAX_ATTENDEES}."
ErrPast == "Date cannot be in the past."
ErrFuture == "Date cannot be more than 7 days in the future."
ErrOrder == "Start time must be before end time."
ErrRange == "Start and end times must be between 09:00 and 22:00 inclusive."

\* the message validateBookingTime({date, startHour, endHour}) throws, "" when
\* it returns; the clock reads nowHour on day Today.  Hours are half-hour
\* counts here, so the alignment test of the source (integer or .5) cannot
\* fail and is not modelled.  The source compares the duration in hours with
\* MAX_BOOKING_DURATION, a number of milliseconds (10 800 000): that test
\* cannot fail either.
validateBookingTimeError(d, startHour, endHour, nowHour) ==
  IF d < Today \/ (d = Today /\ HalfHours(nowHour) >= startHour) THEN ErrPast
  ELSE IF d > Today + MAX_BOOKING_ADVANCE_DAYS THEN ErrFuture
  ELSE IF endHour - startHour <= 0 THEN ErrOrder
  ELSE IF \/ startHour < MinSlot
          \/ endHour < MinSlot
          \/ startHour > MaxSlot
          \/ endHour > MaxSlot
       THEN ErrRange
  ELSE ""

validateBookingTimeThrows(d, startHour, endHour, nowHour) ==
  validateBookingTimeError(d, startHour, endHour, nowHour) # ""

(***************************************************************************)
(* bookRoomsForDay                                                         *)
(***************************************************************************)
ErrNoSchedule == "A room provided does not have a schedule."
ErrSameDay == "Every room must have a schedule from the same day."

\* Array.prototype.filter
RECURSIVE filterCapacity(_, _)
filterCapacity(rs, n) ==
  IF rs = <<>> THEN <<>>
  ELSE IF Head(rs).capacity >= n
       THEN <<Head(rs)>> \o filterCapacity(Tail(rs), n)
       ELSE filterCapacity(Tail(rs), n)

\* a plausible slip: the scan keeps the last match instead of the first
RECURSIVE findLastFreeIndex(_, _, _, _)
findLastFreeIndex(rs, i, from, to) ==
  IF i < 1 THEN 0
  ELSE IF RoomIsFree(rs[i], from, to) THEN i
       ELSE findLastFreeIndex(rs, i - 1, from, to)

findFreeRoomIndexLast(rs, from, to) == findLastFreeIndex(rs, Len(rs), from, to)

\* validRooms.findIndex((r) => r.isFree(currentHour, currentEndHour)), as a
\* 1-based index; 0 stands for the -1 of a failed search
RECURSIVE findIndexFrom(_, _, _, _)
findIndexFrom(rs, i, from, to) ==
  IF i > Len(rs) THEN 0
  ELSE IF RoomIsFree(rs[i], from, to) THEN i
       ELSE findIndexFrom(rs, i + 1, from, to)

findFreeRoomIndex(rs, from, to) == findIndexFrom(rs, 1, from, to)

\* a plausible slip: the capacity filter is left out
filterNone(rs, n) == rs

\* rooms.filter((r) => r.capacity >= attendees)
validRoomsOf(rs, n) == filterCapacity(rs, n)

\* a plausible slip: the loop gives up after the first failed search
shrinkToZero(duration) == 0

\* a plausible slip: the failed search leaves the duration as it was
shrinkStuck(duration) == duration

\* a plausible slip: the duration is lowered by a whole hour
shrinkByHour(duration) == duration - HalfHours(1)

\* line 204: currentDuration -= BOOKING_TIME_INTERVAL
shrink(duration) == duration - BOOKING_TIME_INTERVAL

\* a plausible slip: the cursor is not moved
advanceStuck(hour, duration) == hour

\* line 222: currentHour += currentDuration
advance(hour, duration) == hour + duration

\* a plausible slip: the next duration is not cut at the end of the day
resetDurationNoCap(hour) == MaxDur

\* line 225: the next duration, cut so that the block ends by MAX_BOOKING_HOUR
resetDuration(hour) == Min(MaxSlot - hour, MaxDur)

\* a plausible slip: the room found stays in the pool
spliceKeep(rs, i) == rs

\* validRooms.splice(i, 1)
splice(rs, i) == [j \in 1..(Len(rs) - 1) |-> IF j < i THEN rs[j] ELSE rs[j + 1]]

\* a plausible slip: the pool is the caller's array itself (no copy is made),
\* so the splice takes the room out of the caller's list too
callerRoomsAliased(rs, id) == SelectSeq(rs, LAMBDA r : r.id # id)

\* lines 189 and 219: filter returns a new array, so the splice of the pool
\* leaves the caller's array, and the Room objects in it, as they are
callerRoomsAfterSplice(rs, id) == rs

IdleFill ==
  /\ rooms = <<>>
  /\ validRooms = <<>>
  /\ currentHour = 0
  /\ currentDuration = 0
  /\ bookedTo = 0
  /\ roomsToBook = <<>>
  /\ subStatus = <<>>
  /\ bookedRooms = <<>>

\* a call bookRoomsForDay(rooms, attendees)
InitFill ==
  /\ op = "bookRoomsForDay"
  /\ pc = "start"
  /\ rooms \in RoomLists
  /\ attendees \in AttendeeChoices
  /\ validRooms = <<>>
  /\ currentHour = 0
  /\ currentDuration = 0
  /\ bookedTo = 0
  /\ roomsToBook = <<>>
  /\ subStatus = <<>>
  /\ bookedRooms = <<>>

\* lines 183-195: the validation, the filter and the loop's initial state
Validate ==
  /\ op = "bookRoomsForDay"
  /\ pc = "start"
  /\ UNCHANGED <<commonVars, buildVars, freeVars>>
  /\ UNCHANGED <<rooms, roomsToBook, subStatus, posts, bookedRooms>>
  /\ IF validateAttendeesThrows(attendees)
     THEN /\ pc' = "error" /\ err' = ErrAttendees
          /\ UNCHANGED <<validRooms, currentHour, currentDuration, bookedTo>>
     ELSE IF \E i \in 1..Len(rooms) : rooms[i].schedule = NoSchedule
     THEN /\ pc' = "error" /\ err' = ErrNoSchedule
          /\ UNCHANGED <<validRooms, currentHour, currentDuration, bookedTo>>
     ELSE IF \E i \in 1..Len(rooms) : rooms[i].schedule.date # rooms[1].schedule.date
     THEN /\ pc' = "error" /\ err' = ErrSameDay
          /\ UNCHANGED <<validRooms, currentHour, currentDuration, bookedTo>>
     ELSE /\ pc' = "loop" /\ err' = ""
          /\ validRooms' = validRoomsOf(rooms, attendees)
          /\ currentHour' = MinSlot
          /\ currentDuration' = MaxDur
          /\ bookedTo' = 0

\* lines 197-226: the test of the while loop and one pass of its body
LoopStep ==
  /\ pc = "loop"
  /\ UNCHANGED <<commonVars, buildVars, freeVars>>
  /\ UNCHANGED <<subStatus, posts, bookedRooms, err>>
  /\ IF bookedTo = MaxSlot
     THEN /\ pc' = "submit"
          /\ UNCHANGED <<rooms, validRooms, currentHour, currentDuration, bookedTo, roomsToBook>>
     ELSE LET currentEndHour == currentHour + currentDuration
              freeRoomIndex == findFreeRoomIndex(validRooms, currentHour, currentEndHour)
          IN  IF freeRoomIndex = 0
              THEN /\ currentDuration' = shrink(currentDuration)
                   /\ pc' = IF currentDuration' = 0 THEN "submit" ELSE "loop"
                   /\ UNCHANGED <<rooms, validRooms, currentHour, bookedTo, roomsToBook>>
              ELSE /\ roomsToBook' = Append(roomsToBook,
                                           [room |-> validRooms[freeRoomIndex].id,
                                            date |-> validRooms[freeRoomIndex].schedule.date,
                                            startHour |-> currentHour,
                                            endHour |-> currentEndHour])
                   /\ validRooms' = splice(validRooms, freeRoomIndex)
                   /\ rooms' = callerRoomsAfterSplice(rooms, validRooms[freeRoomIndex].id)
                   /\ bookedTo' = currentEndHour
                   /\ currentHour' = advance(currentHour, currentDuration)
                   /\ currentDuration' = resetDuration(currentHour')
                   /\ pc' = "loop"

\* a plausible slip: i <= duration, the end of the block is submitted as well
RECURSIVE bookingDatesInclusive(_, _, _, _)
bookingDatesInclusive(d, startHour, i, duration) ==
  IF i <= duration
  THEN <<[date |-> d, slot |-> startHour + i]>>
         \o bookingDatesInclusive(d, startHour, i + BOOKING_TIME_INTERVAL, duration)
  ELSE <<>>

\* bookRoom, lines 155-165: one timestamp for every i = 0, 0.5, ... < duration
RECURSIVE bookingDates(_, _, _, _)
bookingDates(d, startHour, i, duration) ==
  IF i < duration
  THEN <<[date |-> d, slot |-> startHour + i]>>
         \o bookingDates(d, startHour, i + BOOKING_TIME_INTERVAL, duration)
  ELSE <<>>

\* bookRoom, lines 167-171: the body handed to post(BOOKING_URL, ...)
bookingBody(roomId, n, time) ==
  [url |-> "bookingv2",
   attendees |-> n,
   dates |-> bookingDates(time.date, time.startHour, 0, time.endHour - time.startHour),
   locationId |-> roomId]

\* bookRoom, lines 149-150: the call throws before it posts anything
bookRoomThrows(n, time, nowHour) ==
  \/ validateAttendeesThrows(n)
  \/ validateBookingTimeThrows(time.date, time.startHour, time.endHour, nowHour)

\* the bodies posted by the calls of bookRoom that pass their validation, in
\* the order roomsToBook.map starts them
RECURSIVE postedBodies(_, _, _)
postedBodies(rs, n, nowHour) ==
  IF rs = <<>> THEN <<>>
  ELSE (IF bookRoomThrows(n, Head(rs), nowHour)
        THEN <<>>
        ELSE <<bookingBody(Head(rs).room, n, Head(rs))>>)
       \o postedBodies(Tail(rs), n, nowHour)

\* lines 228-232: roomsToBook.map starts every bookRoom call; each runs up to
\* its post (or throws in its validation) before the next one starts.  The
\* calls run back to back, so they share one reading of the clock.
StartSubmissions ==
  /\ pc = "submit"
  /\ \E nowHour \in NowHours :
       /\ subStatus' = [i \in 1..Len(roomsToBook) |->
                          IF bookRoomThrows(attendees, roomsToBook[i], nowHour)
                          THEN "rejected" ELSE "pending"]
       /\ posts' = posts \o postedBodies(roomsToBook, attendees, nowHour)
  /\ pc' = "await"
  /\ UNCHANGED <<commonVars, buildVars, freeVars>>
  /\ UNCHANGED <<rooms, validRooms, currentHour, currentDuration, bookedTo,
                 roomsToBook, bookedRooms, err>>

\* the post of assignment i settles: bookRoom returns true, or post throws
SettleSubmission(i, ok) ==
  /\ pc = "await"
  /\ i \in 1..Len(subStatus)
  /\ subStatus[i] = "pending"
  /\ subStatus' = [subStatus EXCEPT ![i] = IF ok THEN "fulfilled" ELSE "rejected"]
  /\ UNCHANGED <<commonVars, buildVars, freeVars>>
  /\ UNCHANGED <<pc, rooms, validRooms, currentHour, currentDuration, bookedTo,
                 roomsToBook, posts, bookedRooms, err>>

\* what a rejected promise leaves in the list: allSettled's own record
Rejected == [status |-> "rejected"]

\* a plausible slip: only the fulfilled submissions are kept
RECURSIVE fulfilledOnly(_, _, _)
fulfilledOnly(rs, status, i) ==
  IF i > Len(rs) THEN <<>>
  ELSE (IF status[i] = "fulfilled" THEN <<rs[i]>> ELSE <<>>) \o fulfilledOnly(rs, status, i + 1)

settledResultsDropFailures(rs, status) == fulfilledOnly(rs, status, 1)

\* line 233: Promise.allSettled keeps one result per promise, in the order of
\* the promises; res.map((v) => (v.status === "fulfilled" ? v.value : v))
settledResults(rs, status) ==
  [i \in 1..Len(rs) |-> IF status[i] = "fulfilled" THEN rs[i] ELSE Rejected]

\* a plausible slip: Promise.all in place of Promise.allSettled, so that one
\* rejected submission makes the whole call throw
ReturnFailFast ==
  /\ pc = "await"
  /\ \A i \in 1..Len(subStatus) : subStatus[i] # "pending"
  /\ IF \E i \in 1..Len(subStatus) : subStatus[i] = "rejected"
     THEN /\ pc' = "error" /\ err' = "submission failed"
          /\ UNCHANGED bookedRooms
     ELSE /\ pc' = "done" /\ err' = err
          /\ bookedRooms' = [i \in 1..Len(roomsToBook) |-> roomsToBook[i]]
  /\ UNCHANGED <<commonVars, buildVars, freeVars>>
  /\ UNCHANGED <<rooms, validRooms, currentHour, currentDuration, bookedTo,
                 roomsToBook, subStatus, posts>>

\* lines 233-235: every promise has settled; the list is returned
Return ==
  /\ pc = "await"
  /\ \A i \in 1..Len(subStatus) : subStatus[i] # "pending"
  /\ bookedRooms' = settledResults(roomsToBook, subStatus)
  /\ pc' = "done"
  /\ UNCHANGED <<commonVars, buildVars, freeVars>>
  /\ UNCHANGED <<rooms, validRooms, currentHour, currentDuration, bookedTo,
                 roomsToBook, subStatus, posts, err>>

(***************************************************************************)
(* findRoomsWithSchedules                                                  *)
(***************************************************************************)
\* the half-hour slots queried: for (i = MIN_BOOKING_HOUR; i < MAX_BOOKING_HOUR; i += 0.5)
Slots == { s \in MinSlot..(MaxSlot - 1) : (s - MinSlot) % BOOKING_TIME_INTERVAL = 0 }

LastSlot == MaxSlot - BOOKING_TIME_INTERVAL

\* the slots at which the service is made to report rooms or to fail: the
\* first HeadSlots slots of the day and the last one
ActiveSlots == { s \in Slots : s < MinSlot + HeadSlots } \cup {LastSlot}

\* the example of the coalescing rule: free at 9, 9.5, 10, 11, 11.5
ExampleSlots == {MinSlot, MinSlot + 1, MinSlot + 2, MinSlot + 4, MinSlot + 5}

\* the sets of slots at which the first room is reported free
SlotPatterns == (SUBSET ActiveSlots) \cup {ExampleSlots}

\* those of the second room: never, at 9.5 and 10, always
OtherPatterns == {{}, {MinSlot + 1, MinSlot + 2}, Slots}

\* the rooms the service knows
BuildRoomIds == {1, 2}

\* the dates tried: yesterday, today, tomorrow, the day after the last bookable one
DateChoices == {Today - 1, Today, Tomorrow, Today + MAX_BOOKING_ADVANCE_DAYS + 1}

\* the ids of S in ascending order: the order in which a JavaScript object
\* lists integer-like keys, and the order of the sorted slot entries
RECURSIVE Ascending(_)
Ascending(S) ==
  IF S = {} THEN <<>>
  ELSE LET m == CHOOSE x \in S : \A y \in S : x <= y
       IN  <<m>> \o Ascending(S \ {m})

\* formatFindRoomsResponse: the rooms of one answer, without a schedule
formatFindRoomsResponse(ids) ==
  [i \in 1..Len(ids) |-> Room(ids[i], HighCapacity, NoSchedule)]

\* the answers of the service for a choice of the two rooms' free slots
Answers(p1, p2) ==
  [s \in Slots |->
     formatFindRoomsResponse(Ascending({ r \in BuildRoomIds : s \in (IF r = 1 THEN p1 ELSE p2) }))]

ErrQuery == "query failed"

\* findRooms, lines 122-134: the body handed to post(FIND_ROOMS_URL, ...)
findRoomsBody(n, d, startHour, endHour) ==
  [url |-> "findrooms", attendees |-> n, date |-> d, startTime |-> startHour, endTime |-> endHour]

\* findRooms, lines 114-115: the call throws before it posts anything
findRoomsThrows(n, d, startHour, endHour, nowHour) ==
  \/ validateAttendeesThrows(n)
  \/ validateBookingTimeThrows(d, startHour, endHour, nowHour)

\* the bodies posted by the loop of lines 252-254, slot after slot
RECURSIVE queryBodies(_, _, _, _)
queryBodies(slots, n, d, nowHour) ==
  IF slots = <<>> THEN <<>>
  ELSE (IF findRoomsThrows(n, d, Head(slots), Head(slots) + BOOKING_TIME_INTERVAL, nowHour)
        THEN <<>>
        ELSE <<findRoomsBody(n, d, Head(slots), Head(slots) + BOOKING_TIME_INTERVAL)>>)
       \o queryBodies(Tail(slots), n, d, nowHour)

\* a call findRoomsWithSchedules(attendees, date)
InitBuild ==
  /\ op = "findRoomsWithSchedules"
  /\ pc = "start"
  /\ attendees \in {MIN_ATTENDEES - 1, MainAttendees, MAX_ATTENDEES + 1}
  /\ date \in DateChoices
  /\ \E p1 \in SlotPatterns, p2 \in OtherPatterns : avail = Answers(p1, p2)
  /\ slotPromises = [s \in Slots |-> "none"]
  /\ foundRooms = <<>>

IdleBuild ==
  /\ date = Today
  /\ avail = <<>>
  /\ slotPromises = <<>>
  /\ foundRooms = <<>>

\* a plausible slip: the queries are sent off before the attendee count is
\* looked at
StartQueriesUnchecked ==
  /\ op = "findRoomsWithSchedules"
  /\ pc = "start"
  /\ UNCHANGED <<commonVars, fillVars, freeVars, date, avail, foundRooms>>
  /\ \E nowHour \in NowHours :
       /\ posts' = posts \o [i \in 1..Cardinality(Slots) |->
                               findRoomsBody(attendees, date, Ascending(Slots)[i],
                                             Ascending(Slots)[i] + BOOKING_TIME_INTERVAL)]
       /\ IF validateAttendeesThrows(attendees)
          THEN /\ pc' = "error" /\ err' = ErrAttendees
               /\ UNCHANGED slotPromises
          ELSE /\ pc' = "queries" /\ err' = ""
               /\ slotPromises' = [s \in Slots |-> "pending"]

\* lines 246-254: the validation, then one findRooms call per slot; each call
\* runs up to its post (or throws in its own validation) before the next one
\* starts.  The calls run back to back, so they share one reading of the clock.
StartQueries ==
  /\ op = "findRoomsWithSchedules"
  /\ pc = "start"
  /\ UNCHANGED <<commonVars, fillVars, freeVars, date, avail, foundRooms>>
  /\ \E nowHour \in NowHours :
       IF validateAttendeesThrows(attendees)
       THEN /\ pc' = "error" /\ err' = ErrAttendees
            /\ UNCHANGED <<slotPromises, posts>>
       ELSE IF validateBookingTimeError(date, MinSlot, MinSlot + HalfHours(1), nowHour) # ""
       THEN /\ pc' = "error"
            /\ err' = validateBookingTimeError(date, MinSlot, MinSlot + HalfHours(1), nowHour)
            /\ UNCHANGED <<slotPromises, posts>>
       ELSE /\ pc' = "queries" /\ err' = ""
            /\ slotPromises' =
                 [s \in Slots |->
                    IF findRoomsThrows(attendees, date, s, s + BOOKING_TIME_INTERVAL, nowHour)
                    THEN "rejected" ELSE "pending"]
            /\ posts' = posts \o queryBodies(Ascending(Slots), attendees, date, nowHour)

Rejections == { s \in Slots : slotPromises[s] = "rejected" }

\* the query of slot s settles: findRooms returns the rooms of the answer, or
\* post (or the parsing of the answer) throws
SettleQuery(s, ok) ==
  /\ pc = "queries"
  /\ slotPromises[s] = "pending"
  /\ \A t \in Slots : slotPromises[t] = "pending" => s - t < MaxRace * BOOKING_TIME_INTERVAL
  /\ ok \/ (s \in ActiveSlots /\ Cardinality(Rejections) < MaxFail)
  /\ slotPromises' = [slotPromises EXCEPT ![s] = IF ok THEN "fulfilled" ELSE "rejected"]
  /\ UNCHANGED <<commonVars, fillVars, freeVars, pc, posts, err, date, avail, foundRooms>>

\* lines 262-271: the slot times at which room id is listed, the entries being
\* visited in ascending slot order
RECURSIVE roomFreeTimes(_, _, _)
roomFreeTimes(answers, slots, id) ==
  IF slots = <<>> THEN <<>>
  ELSE (IF \E i \in 1..Len(answers[Head(slots)]) : answers[Head(slots)][i].id = id
        THEN <<Head(slots)>> ELSE <<>>)
       \o roomFreeTimes(answers, Tail(slots), id)

\* a plausible slip: a run is closed only by a gap, never by the end of the list
RECURSIVE coalesceNoFinal(_, _, _)
coalesceNoFinal(times, i, start) ==
  IF i > Len(times) THEN <<>>
  ELSE IF i = Len(times) THEN <<>>
       ELSE IF times[i + 1] - times[i] # BOOKING_TIME_INTERVAL
            THEN <<Interval(start, times[i] + BOOKING_TIME_INTERVAL)>>
                   \o coalesceNoFinal(times, i + 1, times[i + 1])
            ELSE coalesceNoFinal(times, i + 1, start)

\* a plausible slip: a run is closed at its last slot, not half an hour later
RECURSIVE coalesceNoHalf(_, _, _)
coalesceNoHalf(times, i, start) ==
  IF i > Len(times) THEN <<>>
  ELSE IF i = Len(times)
       THEN <<Interval(start, times[i])>>
       ELSE IF times[i + 1] - times[i] # BOOKING_TIME_INTERVAL
            THEN <<Interval(start, times[i])>>
                   \o coalesceNoHalf(times, i + 1, times[i + 1])
            ELSE coalesceNoHalf(times, i + 1, start)

\* lines 277-295: the loop over a room's slot times; i is the 1-based place of
\* `last`, `time` is the next element or undefined past the end
RECURSIVE coalesce(_, _, _)
coalesce(times, i, start) ==
  IF i > Len(times) THEN <<>>
  ELSE IF i = Len(times)
       THEN <<Interval(start, times[i] + BOOKING_TIME_INTERVAL)>>
       ELSE IF times[i + 1] - times[i] # BOOKING_TIME_INTERVAL
            THEN <<Interval(start, times[i] + BOOKING_TIME_INTERVAL)>>
                   \o coalesce(times, i + 1, times[i + 1])
            ELSE coalesce(times, i + 1, start)

\* the keys of roomFreeTimes: the ids listed in some answer
SeenIds(answers) ==
  { id \in BuildRoomIds : roomFreeTimes(answers, Ascending(Slots), id) # <<>> }

\* foundRooms[room.id] = room keeps the room as first listed; lines 274-298
\* give it its schedule.  The stored objects are {from, to, duration} literals
\* (no TimeInterval is constructed); duration is never read and is left out.
scheduledRoom(answers, d, id) ==
  LET times == roomFreeTimes(answers, Ascending(Slots), id)
  IN  Room(id, HighCapacity, RoomSchedule(d, coalesce(times, 1, times[1])))

\* Object.values(foundRooms)
scheduledRooms(answers, d) ==
  LET ids == Ascending(SeenIds(answers))
  IN  [i \in 1..Len(ids) |-> scheduledRoom(answers, d, ids[i])]

\* a plausible slip: Promise.race in place of Promise.allSettled, so that the
\* aggregation starts as soon as one query has settled
AggregateAfterFirst ==
  /\ pc = "queries"
  /\ \E s \in Slots : slotPromises[s] # "pending"
  /\ IF Rejections # {}
     THEN /\ pc' = "error" /\ err' = ErrQuery
          /\ UNCHANGED foundRooms
     ELSE /\ pc' = "done" /\ err' = ""
          /\ foundRooms' = scheduledRooms(avail, date)
  /\ UNCHANGED <<commonVars, fillVars, freeVars, posts, date, avail, slotPromises>>

\* lines 256-300: every promise has settled.  `await rooms` rethrows the error
\* of the first rejected promise in slot order; otherwise the rooms are
\* collected, given their schedules and returned.
Aggregate ==
  /\ pc = "queries"
  /\ \A s \in Slots : slotPromises[s] # "pending"
  /\ IF Rejections # {}
     THEN /\ pc' = "error" /\ err' = ErrQuery
          /\ UNCHANGED foundRooms
     ELSE /\ pc' = "done" /\ err' = ""
          /\ foundRooms' = scheduledRooms(avail, date)
  /\ UNCHANGED <<commonVars, fillVars, freeVars, posts, date, avail, slotPromises>>

(***************************************************************************)
(* A call of isFree on a schedule.                                         *)
(***************************************************************************)
QueryTimes == MinSlot..(MinSlot + QuerySpan)

QueryIntervals == { Interval(a, b) : a \in QueryTimes, b \in QueryTimes }

\* the schedules queried: up to MaxIntervals stored intervals, in any order,
\* touching or overlapping ones included
QuerySchedules ==
  UNION { [1..n -> { t \in QueryIntervals : t.from < t.to }] : n \in 0..MaxIntervals }

\* a call schedule.isFree(time) or schedule.isFree(time, to)
InitFree ==
  /\ op = "isFree"
  /\ pc = "start"
  /\ attendees = MainAttendees
  /\ query \in { [freeTimes |-> f, time |-> a, to |-> b] :
                 f \in QuerySchedules, a \in QueryTimes,
                 b \in {<<>>} \cup { <<t>> : t \in QueryTimes } }
  /\ answer = FALSE

IdleFree ==
  /\ query = <<>>
  /\ answer = FALSE

CallIsFree ==
  /\ op = "isFree"
  /\ pc = "start"
  /\ answer' = isFree(RoomSchedule(Today, query.freeTimes), query.time, query.to)
  /\ pc' = "done"
  /\ UNCHANGED <<commonVars, fillVars, buildVars, posts, err, query>>

(***************************************************************************)
(* The construction of a TimeInterval.                                     *)
(***************************************************************************)
\* line 53: the clock hours the constructor accepts, ends included
FirstClockHour == 0
LastClockHour == 23

\* how far below 0 and above 24 the bounds tried reach, in half-hours
ClockMargin == 2

ClockTimes ==
  (HalfHours(FirstClockHour) - ClockMargin)..(HalfHours(LastClockHour + 1) + ClockMargin)

ErrFromBeforeTo == "'from' time must be before 'to' time."
ErrTimes == "Times must be between 0 and 23 inclusive."

\* a plausible slip: > in place of >=, an empty interval is let through
TimeIntervalErrorLax(from, to) ==
  IF from > to THEN ErrFromBeforeTo
  ELSE IF \/ from < HalfHours(FirstClockHour) \/ from > HalfHours(LastClockHour)
          \/ to < HalfHours(FirstClockHour) \/ to > HalfHours(LastClockHour)
       THEN ErrTimes
       ELSE ""

\* lines 52-54: the error the constructor throws, "" when it throws none
TimeIntervalError(from, to) ==
  IF from >= to THEN ErrFromBeforeTo
  ELSE IF \/ from < HalfHours(FirstClockHour) \/ from > HalfHours(LastClockHour)
          \/ to < HalfHours(FirstClockHour) \/ to > HalfHours(LastClockHour)
       THEN ErrTimes
       ELSE ""

\* no object has been constructed (yet)
NotConstructed == [undefined |-> TRUE]

\* a call new TimeInterval(from, to)
InitTimeInterval ==
  /\ op = "TimeInterval"
  /\ pc = "start"
  /\ attendees = MainAttendees
  /\ query \in { [from |-> a, to |-> b] : a \in ClockTimes, b \in ClockTimes }
  /\ answer = NotConstructed

\* lines 51-55: the constructor throws, or the object holds from and to
ConstructTimeInterval ==
  /\ op = "TimeInterval"
  /\ pc = "start"
  /\ IF TimeIntervalError(query.from, query.to) # ""
     THEN /\ pc' = "error"
          /\ err' = TimeIntervalError(query.from, query.to)
          /\ UNCHANGED answer
     ELSE /\ pc' = "done"
          /\ answer' = Interval(query.from, query.to)
          /\ UNCHANGED err
  /\ UNCHANGED <<commonVars, fillVars, buildVars, posts, query>>

(***************************************************************************)
(* The specification: one call of one of the operations.                   *)
(***************************************************************************)
Init ==
  /\ posts = <<>>
  /\ err = ""
  /\ run = 1
  /\ firstRun = <<>>
  /\ \/ InitFill /\ IdleBuild /\ IdleFree
     \/ InitBuild /\ IdleFill /\ IdleFree
     \/ InitFree /\ IdleFill /\ IdleBuild
     \/ InitTimeInterval /\ IdleFill /\ IdleBuild

Next ==
  \/ Validate
  \/ LoopStep
  \/ StartSubmissions
  \/ \E i \in 1..NumRooms, ok \in BOOLEAN : SettleSubmission(i, ok)
  \/ Return
  \/ StartQueries
  \/ \E s \in Slots, ok \in BOOLEAN : SettleQuery(s, ok)
  \/ Aggregate
  \/ CallIsFree
  \/ ConstructTimeInterval

Spec == Init /\ [][Next]_vars

\* The decision phase of bookRoomsForDay alone, lines 183-226, up to the
\* moment the calls of bookRoom would start.  The while loop is synchronous
\* code of the running call: once entered, nothing can keep its next pass
\* from being taken, hence the weak fairness of LoopStep.
LoopInit ==
  /\ posts = <<>>
  /\ err = ""
  /\ run = 1
  /\ firstRun = <<>>
  /\ InitFill /\ IdleBuild /\ IdleFree

LoopNext ==
  \/ Validate
  \/ LoopStep

LoopSpec == LoopInit /\ [][LoopNext]_vars /\ WF_vars(LoopStep)

\* the caller calls bookRoomsForDay again with the rooms list and attendee
\* count it passed the first time; the locals of the first call are gone
Rerun ==
  /\ op = "bookRoomsForDay"
  /\ pc = "done"
  /\ run = 1
  /\ run' = 2
  /\ firstRun' = roomsToBook
  /\ pc' = "start"
  /\ validRooms' = <<>>
  /\ currentHour' = 0
  /\ currentDuration' = 0
  /\ bookedTo' = 0
  /\ roomsToBook' = <<>>
  /\ subStatus' = <<>>
  /\ bookedRooms' = <<>>
  /\ UNCHANGED <<op, attendees, rooms, posts, err, buildVars, freeVars>>

\* bookRoomsForDay called twice in a row on the same arguments
RerunNext ==
  \/ Validate
  \/ LoopStep
  \/ StartSubmissions
  \/ \E i \in 1..NumRooms, ok \in BOOLEAN : SettleSubmission(i, ok)
  \/ Return
  \/ Rerun

RerunSpec == LoopInit /\ [][RerunNext]_vars

(***************************************************************************)
(* Properties.                                                             *)
(***************************************************************************)
Fill == op = "bookRoomsForDay"
Build == op = "findRoomsWithSchedules"

\* the decision loop of bookRoomsForDay has ended
LoopEnded == Fill /\ pc \in {"submit", "await", "done"}

\* some stored interval contains both a and b, bounds included
FitsOneInterval(freeTimes, a, b) ==
  \E i \in 1..Len(freeTimes) :
    /\ freeTimes[i].from <= a /\ a <= freeTimes[i].to
    /\ freeTimes[i].from <= b /\ b <= freeTimes[i].to

\* C1: no two recorded assignments use the same room, and no two of them
\* overlap in time (as half-open blocks [startHour, endHour)).
C1_DistinctRoomsDisjointBlocks ==
  Fill =>
    \A i \in 1..Len(roomsToBook), j \in 1..Len(roomsToBook) :
      i < j =>
        /\ roomsToBook[i].room # roomsToBook[j].room
        /\ \/ roomsToBook[i].endHour <= roomsToBook[j].startHour
           \/ roomsToBook[j].endHour <= roomsToBook[i].startHour

\* a finished run that recorded several assignments from a pool with a room
\* that is not plain
C1_Witness ==
  /\ Fill /\ pc = "done"
  /\ Len(roomsToBook) >= 3
  /\ \E i \in 1..Len(rooms) : rooms[i].schedule.freeTimes # FullDay

\* C2: every recorded assignment is on a room whose capacity is at least the
\* attendee count, and its block lies inside one single free interval of
\* that room's schedule.
C2_AssignmentsValid ==
  Fill =>
    \A i \in 1..Len(roomsToBook) :
      LET r == rooms[roomsToBook[i].room]
      IN  /\ r.capacity >= attendees
          /\ FitsOneInterval(r.schedule.freeTimes, roomsToBook[i].startHour, roomsToBook[i].endHour)

\* a finished run in which a room too small was passed over and a room with
\* two stored intervals was given a block inside one of them
C2_Witness ==
  /\ Fill /\ pc = "done"
  /\ \E i \in 1..Len(rooms) : rooms[i].capacity < attendees
  /\ \E i \in 1..Len(roomsToBook) : Len(rooms[roomsToBook[i].room].schedule.freeTimes) = 2

\* the answers with the answer of every failed slot replaced by no rooms
AnswersWithoutFailed == [s \in Slots |-> IF slotPromises[s] = "rejected" THEN <<>> ELSE avail[s]]

\* C3: when some per-slot queries fail, findRoomsWithSchedules still
\* completes without an error: a failed slot counts as a slot with no rooms
\* and the other slots are aggregated normally.
C3_FailedQueriesAbsorbed ==
  (Build /\ pc \in {"done", "error"} /\ Rejections # {}) =>
    /\ pc = "done"
    /\ err = ""
    /\ foundRooms = scheduledRooms(AnswersWithoutFailed, date)

\* C4: the returned list has one entry per assignment, in scheduling order,
\* and entry i is assignment i if its submission succeeded and a rejection
\* record if it failed.
C4_OneOutcomePerAssignment ==
  (Fill /\ pc = "done") =>
    /\ Len(bookedRooms) = Len(roomsToBook)
    /\ \A i \in 1..Len(roomsToBook) :
         /\ subStatus[i] = "fulfilled" => bookedRooms[i] = roomsToBook[i]
         /\ subStatus[i] = "rejected" => bookedRooms[i] = Rejected
         /\ subStatus[i] \in {"fulfilled", "rejected"}

\* five assignments were submitted; the second and the fourth failed
C4_Witness ==
  /\ Fill /\ pc = "done"
  /\ Len(roomsToBook) = 5
  /\ Len(bookedRooms) = 5
  /\ { i \in 1..5 : subStatus[i] = "rejected" } = {2, 4}
  /\ { i \in 1..5 : bookedRooms[i] = roomsToBook[i] } = {1, 3, 5}

\* the scenario of C5: one room, big enough, free from 9 to 22 without a gap
SingleFullDayRoom ==
  /\ Fill
  /\ ~validateAttendeesThrows(attendees)
  /\ Len(rooms) = 1
  /\ rooms[1].capacity >= attendees
  /\ rooms[1].schedule # NoSchedule
  /\ rooms[1].schedule.freeTimes = FullDay

Block(room, d, startHour, endHour) ==
  [room |-> room, date |-> d, startHour |-> startHour, endHour |-> endHour]

\* C5 as claimed: with that single room the run records five assignments on
\* it: [9,12), [12,15), [15,18), [18,21), [21,22).
C5_FiveBlocksOnOneRoom ==
  (SingleFullDayRoom /\ LoopEnded) =>
    LET d == rooms[1].schedule.date
    IN  roomsToBook = << Block(1, d, HalfHours(9), HalfHours(12)),
                         Block(1, d, HalfHours(12), HalfHours(15)),
                         Block(1, d, HalfHours(15), HalfHours(18)),
                         Block(1, d, HalfHours(18), HalfHours(21)),
                         Block(1, d, HalfHours(21), HalfHours(22)) >>

\* C5 amended: with that single room the run records exactly one assignment,
\* [9,12) on that room; the room then leaves the pool, no room is left for
\* 12 onwards, and the loop ends with bookedTo = 12 and currentDuration = 0.
C5_OneBlockOnOneRoom ==
  (SingleFullDayRoom /\ LoopEnded) =>
    /\ roomsToBook = << Block(1, rooms[1].schedule.date, HalfHours(9), HalfHours(12)) >>
    /\ validRooms = <<>>
    /\ bookedTo = HalfHours(12)
    /\ currentHour = HalfHours(12)
    /\ currentDuration = 0

C5_Witness ==
  /\ SingleFullDayRoom
  /\ pc = "done"
  /\ Len(roomsToBook) = 1

\* the slots at which the answers list room id
ReportedSlots(id) == { s \in Slots : \E i \in 1..Len(avail[s]) : avail[s][i].id = id }

\* the maximal runs of consecutive slots of S, as <<first, last>>
MaximalRuns(S) ==
  { <<a, b>> \in S \X S :
      /\ a <= b
      /\ \A x \in a..b : x \in S
      /\ (a - 1) \notin S
      /\ (b + 1) \notin S }

\* C6: the schedule built for a room holds exactly one interval per maximal
\* run of consecutive slots at which the room was reported free, from the
\* first slot of the run to its last slot + 0.5; the slots 9, 9.5, 10, 11,
\* 11.5 give [9,10.5) and [11,12).
C6_OneIntervalPerRun ==
  (Build /\ pc = "done") =>
    \A k \in 1..Len(foundRooms) :
      LET ft == foundRooms[k].schedule.freeTimes
          runs == MaximalRuns(ReportedSlots(foundRooms[k].id))
      IN  /\ Len(ft) = Cardinality(runs)
          /\ { <<ft[i].from, ft[i].to>> : i \in 1..Len(ft) }
               = { <<r[1], r[2] + 1>> : r \in runs }
          /\ ReportedSlots(foundRooms[k].id) = ExampleSlots =>
               ft = << Interval(HalfHours(9), HalfHours(10) + 1),
                       Interval(HalfHours(11), HalfHours(12)) >>

\* the first room was reported at 9, 9.5, 10, 11 and 11.5 and got two intervals
C6_Witness ==
  /\ Build /\ pc = "done"
  /\ Len(foundRooms) >= 1
  /\ foundRooms[1].id = 1
  /\ ReportedSlots(1) = ExampleSlots
  /\ Len(foundRooms[1].schedule.freeTimes) = 2

\* the errors of the validation the claim C7 lists
ValidationErrors == {ErrAttendees, ErrNoSchedule, ErrSameDay}

\* C7: when findRoomsWithSchedules or bookRoomsForDay ends with a validation
\* error, no availability query and no booking submission has been issued.
C7_ValidationBeforeCalls ==
  ((Fill \/ Build) /\ err \in ValidationErrors) => posts = <<>>

\* a call of either operation was refused for its attendee count
C7_Witness ==
  /\ Build
  /\ pc = "error"
  /\ err = ErrAttendees
  /\ attendees > MAX_ATTENDEES

\* C8: the loop ends with the day not fully covered only when no room still
\* in the pool is free for the half hour that starts at the cursor; when no
\* eligible room is free for [9, 9.5] the run ends with no assignment,
\* the cursor still at 9, currentDuration 0, bookedTo 0 and nothing submitted.
C8_StopsOnlyWhenNothingFree ==
  LoopEnded =>
    /\ bookedTo # MaxSlot =>
         \A i \in 1..Len(validRooms) :
           ~FitsOneInterval(validRooms[i].schedule.freeTimes,
                            currentHour, currentHour + BOOKING_TIME_INTERVAL)
    /\ (\A i \in 1..Len(rooms) :
          rooms[i].capacity >= attendees =>
            ~FitsOneInterval(rooms[i].schedule.freeTimes, MinSlot, MinSlot + BOOKING_TIME_INTERVAL))
         => /\ roomsToBook = <<>>
            /\ bookedTo = 0
            /\ currentHour = MinSlot
            /\ currentDuration = 0
            /\ posts = <<>>

\* a finished run over eligible rooms none of which was free at 9
C8_Witness ==
  /\ Fill /\ pc = "done"
  /\ validRooms # <<>>
  /\ roomsToBook = <<>>
  /\ bookedTo = 0

\* C9: isFree(from, to) is true exactly when one single stored interval
\* contains both from and to, bounds included; a block that spans two stored
\* intervals is not free, even when the first ends where the second starts.
C9_IsFreeSingleInterval ==
  (op = "isFree" /\ pc = "done" /\ query.to # <<>>) =>
    answer = FitsOneInterval(query.freeTimes, query.time, query.to[1])

\* a block from inside one stored interval to inside the next one, the two
\* touching, was reported not free
C9_Witness ==
  /\ op = "isFree" /\ pc = "done"
  /\ query.to # <<>>
  /\ Len(query.freeTimes) = 2
  /\ query.freeTimes[1].to = query.freeTimes[2].from
  /\ query.freeTimes[1].from <= query.time /\ query.time < query.freeTimes[1].to
  /\ query.freeTimes[2].from < query.to[1] /\ query.to[1] <= query.freeTimes[2].to
  /\ answer = FALSE

\* the place of room id in the pool
PoolIndex(pool, id) == CHOOSE i \in 1..Len(pool) : pool[i].id = id

\* C10: the pool keeps the input order of the rooms, and a step that records
\* an assignment takes the first room of the pool that is free for the block.
C10_PoolInInputOrder ==
  Fill => \A i \in 1..Len(validRooms), j \in 1..Len(validRooms) :
            i < j => validRooms[i].id < validRooms[j].id

C10_FirstFreeRoomStep ==
  (Fill /\ Len(roomsToBook') = Len(roomsToBook) + 1) =>
    LET a == roomsToBook'[Len(roomsToBook')]
    IN  /\ \E i \in 1..Len(validRooms) : validRooms[i].id = a.room
        /\ \A j \in 1..Len(validRooms) :
             j < PoolIndex(validRooms, a.room) =>
               ~FitsOneInterval(validRooms[j].schedule.freeTimes, a.startHour, a.endHour)

C10_FirstInInputOrderWins == []C10_PoolInInputOrder /\ [][C10_FirstFreeRoomStep]_vars

\* two rooms free all day, the first one smaller than the second: the first
\* block went to the first, the second block to the second
C10_Witness ==
  /\ Fill /\ pc = "done"
  /\ Len(rooms) >= 2
  /\ rooms[1].capacity < rooms[2].capacity
  /\ Len(roomsToBook) >= 2
  /\ roomsToBook[1].room = 1
  /\ roomsToBook[2].room = 2

\* the input of bookRoomsForDay passes the validation of lines 183-187
FillInputValid ==
  /\ ~validateAttendeesThrows(attendees)
  /\ \A i \in 1..Len(rooms) : rooms[i].schedule # NoSchedule
  /\ \A i \in 1..Len(rooms) : rooms[i].schedule.date = rooms[1].schedule.date

\* C11: a call of bookRoomsForDay whose input passes validation never ends
\* with an error: partial coverage and rejected submissions, those rejected
\* by bookRoom's own validation included, do not raise anything, and the call
\* returns a list with one result per assignment.
C11_NoErrorAfterValidation ==
  (Fill /\ FillInputValid) =>
    /\ pc # "error"
    /\ err = ""
    /\ pc = "done" => DOMAIN bookedRooms = 1..Len(roomsToBook)

\* a finished call that covered the day up to 15 only and whose two
\* submissions were both rejected by bookRoom's validation, nothing posted
C11_Witness ==
  /\ Fill /\ pc = "done"
  /\ Len(roomsToBook) = 2
  /\ bookedTo # MaxSlot
  /\ posts = <<>>
  /\ \A i \in 1..Len(bookedRooms) : bookedRooms[i] = Rejected

\* C12: every recorded assignment lasts a positive whole number of half-hours,
\* at most MAX_BOOKING_DURATION_HOURS, starts at or after MIN_BOOKING_HOUR and
\* ends at or before MAX_BOOKING_HOUR.
C12_AssignmentWithinLimits ==
  Fill => \A i \in 1..Len(roomsToBook) :
            LET a == roomsToBook[i]
                duration == a.endHour - a.startHour
            IN  /\ duration > 0
                /\ duration % BOOKING_TIME_INTERVAL = 0
                /\ duration <= HalfHours(MAX_BOOKING_DURATION_HOURS)
                /\ a.startHour >= HalfHours(MIN_BOOKING_HOUR)
                /\ a.endHour <= HalfHours(MAX_BOOKING_HOUR)

\* a finished run whose last block is shorter than three hours and ends at
\* 22 on a room whose schedule is free beyond 22, after a run that also
\* recorded full three-hour blocks
C12_Witness ==
  /\ Fill /\ pc = "done"
  /\ \E i \in 1..Len(roomsToBook) :
       /\ roomsToBook[i].endHour = MaxSlot
       /\ roomsToBook[i].endHour - roomsToBook[i].startHour < MaxDur
       /\ \E k \in 1..Len(rooms[roomsToBook[i].room].schedule.freeTimes) :
            rooms[roomsToBook[i].room].schedule.freeTimes[k].to > MaxSlot
  /\ \E i \in 1..Len(roomsToBook) :
       roomsToBook[i].endHour - roomsToBook[i].startHour = MaxDur

\* the outcome the constructor must have for bounds within [0, lastHalfHour]:
\* it throws exactly when from >= to or a bound lies outside that range
ConstructorThrowsExactly(lastHalfHour) ==
  (pc = "error") <=>
    \/ query.from >= query.to
    \/ query.from < 0 \/ query.from > lastHalfHour
    \/ query.to < 0 \/ query.to > lastHalfHour

\* C13 as stated: the constructor fails exactly when from >= to or a bound
\* lies outside [0, 24), so that every half-hour pair with
\* 0 <= from < to < 24 is accepted.
C13_AcceptsBelow24 ==
  (op = "TimeInterval" /\ pc # "start") =>
    ConstructorThrowsExactly(HalfHours(24) - 1)

\* C13, amended: the constructor fails exactly when from >= to or a bound
\* lies outside [0, 23], both ends included; an accepted pair is stored as
\* given, and a pair with to = 23.5 is rejected.
C13_AcceptsUpTo23 ==
  (op = "TimeInterval" /\ pc # "start") =>
    /\ ConstructorThrowsExactly(HalfHours(23))
    /\ pc = "done" => answer = [from |-> query.from, to |-> query.to]
    /\ pc = "error" => (err \in {ErrFromBeforeTo, ErrTimes} /\ answer = NotConstructed)

\* new TimeInterval(23, 23.5) has thrown
C13_Witness ==
  /\ op = "TimeInterval" /\ pc = "error"
  /\ query.from = HalfHours(23)
  /\ query.to = HalfHours(23) + 1
  /\ err = ErrTimes

\* C14: the decision loop terminates: currentDuration is never negative, and
\* a call that is in the loop eventually leaves it, with coveredTo equal to
\* MAX_BOOKING_HOUR or with currentDuration equal to 0.
C14_LoopTerminates ==
  /\ [](Fill => currentDuration >= 0)
  /\ (Fill /\ pc = "loop") ~>
       (LoopEnded /\ (bookedTo = MaxSlot \/ currentDuration = 0))

\* the loop has just ended because the duration shrank to 0 with part of the
\* day covered
C14_Witness ==
  /\ Fill /\ pc = "submit"
  /\ currentDuration = 0
  /\ roomsToBook # <<>>
  /\ bookedTo # MaxSlot

\* C15: at every point of the loop of bookRoomsForDay, and after it, the
\* recorded assignments form a gap-free chain from the start of the day: the
\* first starts at MIN_BOOKING_HOUR, each later one starts where the one
\* before it ended, and once there is an assignment coveredTo and currentHour
\* both equal the end of the last one; before that the cursor stands at
\* MIN_BOOKING_HOUR.
C15_GapFreeChain ==
  (Fill /\ pc \in {"loop", "submit", "await", "done"}) =>
    /\ \A i \in 1..Len(roomsToBook) :
         roomsToBook[i].startHour =
           IF i = 1 THEN HalfHours(MIN_BOOKING_HOUR) ELSE roomsToBook[i - 1].endHour
    /\ roomsToBook # <<>> =>
         /\ bookedTo = roomsToBook[Len(roomsToBook)].endHour
         /\ currentHour = bookedTo
    /\ roomsToBook = <<>> => currentHour = HalfHours(MIN_BOOKING_HOUR)

\* the loop is in the middle of shrinking the duration after two recorded
\* assignments, with rooms left in the pool that are busy at the cursor
C15_Witness ==
  /\ Fill /\ pc = "loop"
  /\ Len(roomsToBook) = 2
  /\ validRooms # <<>>
  /\ currentDuration < resetDuration(currentHour)
  /\ currentDuration > 0

\* C16: a step that records an assignment starting at h with duration d
\* records the longest one available: for every longer duration d2 up to
\* min(MAX_BOOKING_HOUR - h, MAX_BOOKING_DURATION_HOURS), no room of the pool
\* as it is at that moment is free for the whole of [h, h + d2].
C16_LongestAvailableStep ==
  (Fill /\ Len(roomsToBook') = Len(roomsToBook) + 1) =>
    LET a == roomsToBook'[Len(roomsToBook')]
        h == a.startHour
        d == a.endHour - a.startHour
        longest == Min(HalfHours(MAX_BOOKING_HOUR) - h, HalfHours(MAX_BOOKING_DURATION_HOURS))
    IN  \A d2 \in (d + 1)..longest :
          \A j \in 1..Len(validRooms) :
            ~FitsOneInterval(validRooms[j].schedule.freeTimes, h, h + d2)

C16_LongestAvailable == [][C16_LongestAvailableStep]_vars

\* a finished run whose first block, reached by shrinking from three hours,
\* lasts two and a half hours, and whose second block lasts three hours
C16_Witness ==
  /\ Fill /\ pc = "done"
  /\ Len(roomsToBook) >= 2
  /\ roomsToBook[1].endHour - roomsToBook[1].startHour = MaxDur - 1
  /\ roomsToBook[2].endHour - roomsToBook[2].startHour = MaxDur

\* C17: findRoomsWithSchedules issues the queries of all the half-hour slots
\* of the day before any of them settles, one post per slot in slot order,
\* and reads no slot result while a query is still pending: as long as one is
\* pending nothing has been aggregated and nothing thrown, whatever the order
\* in which the queries complete.
C17_AggregatesAfterAllSettled ==
  Build =>
    /\ pc \in {"queries", "done"} =>
         /\ Len(posts) = Cardinality(Slots)
         /\ \A k \in 1..Len(posts) :
              posts[k].startTime = HalfHours(MIN_BOOKING_HOUR) + (k - 1) * BOOKING_TIME_INTERVAL
    /\ (\E s \in Slots : slotPromises[s] = "pending") =>
         /\ pc = "queries"
         /\ foundRooms = <<>>
         /\ err = ""
    /\ pc = "queries" => (foundRooms = <<>> /\ err = "")

\* every query has been issued, the query of 9:30 has completed and the
\* query of 9:00 has not; nothing has been aggregated
C17_Witness ==
  /\ Build /\ pc = "queries"
  /\ Len(posts) = Cardinality(Slots)
  /\ slotPromises[MinSlot] = "pending"
  /\ slotPromises[MinSlot + 1] = "fulfilled"
  /\ foundRooms = <<>>

\* C18: every schedule built by findRoomsWithSchedules is well formed: it has
\* at least one interval, each interval has from < to with both bounds whole
\* half-hours inside [MIN_BOOKING_HOUR, MAX_BOOKING_HOUR], each interval ends
\* strictly before the next one starts (ascending, disjoint, never touching),
\* and a room reported at no slot is not in the output.
C18_SchedulesWellFormed ==
  (Build /\ pc = "done") =>
    /\ \A k \in 1..Len(foundRooms) :
         LET ft == foundRooms[k].schedule.freeTimes
         IN  /\ ft # <<>>
             /\ \A i \in 1..Len(ft) :
                  /\ ft[i].from < ft[i].to
                  /\ ft[i].from % BOOKING_TIME_INTERVAL = 0
                  /\ ft[i].to % BOOKING_TIME_INTERVAL = 0
                  /\ ft[i].from >= HalfHours(MIN_BOOKING_HOUR)
                  /\ ft[i].to <= HalfHours(MAX_BOOKING_HOUR)
             /\ \A i \in 1..(Len(ft) - 1) : ft[i].to < ft[i + 1].from
    /\ \A id \in BuildRoomIds :
         ReportedSlots(id) = {} => \A k \in 1..Len(foundRooms) : foundRooms[k].id # id

\* the output holds room 1 alone, with several intervals of which the last
\* one ends at 22; room 2 was reported at no slot
C18_Witness ==
  /\ Build /\ pc = "done"
  /\ Len(foundRooms) = 1
  /\ foundRooms[1].id = 1
  /\ ReportedSlots(2) = {}
  /\ Len(foundRooms[1].schedule.freeTimes) >= 2
  /\ foundRooms[1].schedule.freeTimes[Len(foundRooms[1].schedule.freeTimes)].to = MaxSlot

\* C19: the schedules built by findRoomsWithSchedules give back the sampled
\* availability: for every room of the output and every half-hour slot s of
\* the day, room.isFree(s, s + 0.5) is true exactly when the query of slot s
\* reported the room.
C19_ScheduleRoundTrip ==
  (Build /\ pc = "done") =>
    \A k \in 1..Len(foundRooms) :
      \A s \in Slots :
        RoomIsFree(foundRooms[k], s, s + BOOKING_TIME_INTERVAL)
          <=> s \in ReportedSlots(foundRooms[k].id)

\* room 1 was reported at 9 and at 10 but not at 9.5: its schedule says busy
\* for [9.5, 10] and free for [9, 9.5] and [10, 10.5]
C19_Witness ==
  /\ Build /\ pc = "done"
  /\ foundRooms # <<>>
  /\ foundRooms[1].id = 1
  /\ ReportedSlots(1) \cap {MinSlot, MinSlot + 1, MinSlot + 2} = {MinSlot, MinSlot + 2}
  /\ ~RoomIsFree(foundRooms[1], MinSlot + 1, MinSlot + 2)
  /\ RoomIsFree(foundRooms[1], MinSlot, MinSlot + 1)
  /\ RoomIsFree(foundRooms[1], MinSlot + 2, MinSlot + 3)

\* the timestamps submitted for slot s over the run, as <<post, place>>
Submissions(s) ==
  { kj \in UNION { {k} \X (1..Len(posts[k].dates)) : k \in 1..Len(posts) } :
      posts[kj[1]].dates[kj[2]].slot = s }

\* every slot ever submitted
SubmittedSlots ==
  UNION { { posts[k].dates[j].slot : j \in 1..Len(posts[k].dates) } : k \in 1..Len(posts) }

\* the half-hour slots of [MIN_BOOKING_HOUR, coveredTo)
CoveredSlots == HalfHours(MIN_BOOKING_HOUR)..(bookedTo - 1)

\* post p is the booking of assignment a: one timestamp for each half-hour
\* slot of [startHour, endHour), in ascending order, for the room of a
PostMatches(p, a) ==
  /\ p.locationId = a.room
  /\ Len(p.dates) = a.endHour - a.startHour
  /\ \A j \in 1..Len(p.dates) :
       p.dates[j] = [date |-> a.date, slot |-> a.startHour + (j - 1) * BOOKING_TIME_INTERVAL]

\* C20 as stated: over one run of bookRoomsForDay every half-hour slot of
\* [MIN_BOOKING_HOUR, coveredTo) is submitted exactly once and no slot outside
\* that range is submitted.
C20_EverySlotSubmittedOnce ==
  (Fill /\ pc \in {"await", "done"}) =>
    /\ \A s \in CoveredSlots : Cardinality(Submissions(s)) = 1
    /\ SubmittedSlots \subseteq CoveredSlots

\* C20, amended: bookRoom is started once per recorded assignment; a call
\* that passes bookRoom's own validation posts one body with exactly one
\* timestamp for each half-hour slot of [startHour, endHour), a call that
\* fails it posts nothing.  So no slot is submitted twice, none outside
\* [MIN_BOOKING_HOUR, coveredTo), and an assignment dated after today (whose
\* validation passes whatever the clock says) has each of its slots submitted
\* exactly once.
C20_SubmittedAtMostOnce ==
  (Fill /\ pc \in {"await", "done"}) =>
    /\ Len(subStatus) = Len(roomsToBook)
    /\ Len(posts) <= Len(roomsToBook)
    \* every post is the booking of one assignment
    /\ \A k \in 1..Len(posts) :
         \E i \in 1..Len(roomsToBook) : PostMatches(posts[k], roomsToBook[i])
    \* the posts follow one another in time without sharing a slot, inside
    \* [MIN_BOOKING_HOUR, coveredTo)
    /\ \A k \in 1..Len(posts) :
         /\ posts[k].dates[1].slot >=
              (IF k = 1 THEN HalfHours(MIN_BOOKING_HOUR)
               ELSE posts[k - 1].dates[Len(posts[k - 1].dates)].slot + BOOKING_TIME_INTERVAL)
         /\ posts[k].dates[Len(posts[k].dates)].slot < bookedTo
    \* an assignment whose validation cannot fail has been posted; one that
    \* was not posted is reported as rejected
    /\ \A i \in 1..Len(roomsToBook) :
         /\ (roomsToBook[i].date > Today /\ roomsToBook[i].date <= Today + MAX_BOOKING_ADVANCE_DAYS)
              => \E k \in 1..Len(posts) : PostMatches(posts[k], roomsToBook[i])
         /\ (\A k \in 1..Len(posts) : posts[k].locationId # roomsToBook[i].room)
              => subStatus[i] = "rejected"

\* a finished run of three assignments, all posted, that covered the day up
\* to 18 only: every slot from 9 to 17.5 was submitted exactly once
C20_Witness ==
  /\ Fill /\ pc = "done"
  /\ Len(roomsToBook) = 3
  /\ Len(posts) = 3
  /\ bookedTo = HalfHours(18)
  /\ \A s \in CoveredSlots : Cardinality(Submissions(s)) = 1

\* no step of bookRoomsForDay changes the caller's rooms list or a room in it
C21_RoomsUntouchedStep == Fill => rooms' = rooms

\* a repeat of the call on the same arguments passes validation as the first
\* call did, records nothing the first call did not record, and ends its loop
\* with the assignments of the first call, in the same order
C21_SecondRunSame ==
  (Fill /\ run = 2) =>
    /\ pc # "error"
    /\ Len(roomsToBook) <= Len(firstRun)
    /\ \A i \in 1..Len(roomsToBook) : roomsToBook[i] = firstRun[i]
    /\ pc \in {"submit", "await", "done"} => roomsToBook = firstRun

====
